---------------------------- MODULE Spec2Model ----------------------------
(***************************************************************************)
(* A model of the Avastar add-on operators of animesh.py, performance.py   *)
(* and bom.py.  The scene graph the operators read and mutate (the active  *)
(* object, its mesh, its vertex groups, its modifier stack, the armature   *)
(* the modifier points to, the materials) is the state; every operator's   *)
(* execute() is one action.                                                *)
(*                                                                         *)
(* Conventions                                                             *)
(*   - names are strings; "None" stands for Python's None;                 *)
(*   - g.group is 0-based as in the source, so obj.vertex_groups[g.group]  *)
(*     is vertex_groups[g.group + 1]; vertices are numbered from 1;        *)
(*   - a weight w stands for w / 10000, a ratio r for r / 100;             *)
(*   - a face is the number of its vertices, len(f.verts).                 *)
(***************************************************************************)
EXTENDS Integers, Sequences, FiniteSets, TLC

VARIABLES
    active,          \* context.active_object: "Body" (a mesh), "Armature", "None"
    vertices,        \* obj.data.vertices: per vertex, v.groups as [group, weight]
    vertex_groups,   \* obj.vertex_groups: the groups' names, in index order
    faces,           \* obj.data.polygons / bm.faces: per face, len(f.verts)
    uv_layers,       \* len(obj.data.uv_layers)
    modifiers,       \* obj.modifiers: [name, type, object, ratio]
    bones,           \* armature.data.bones: [name, use_deform]
    materials,       \* bpy.data.materials: name -> [use_nodes, node_tree]
    slots,           \* obj.data.materials: material names, slot 0 first
    mesh_cache,      \* _mesh_cache: object name -> cached counts
    bone_cache,      \* _bone_cache
    now,             \* time.time()
    backups,         \* copies of the object's data made by an operator
    images,          \* bpy.data.images: the images' names
    registered,      \* whether register() has registered the operator classes
    op,              \* the step last taken
    props,           \* the properties the operator last run was given
    report           \* what the operator last run reported and returned

vars == << active, vertices, vertex_groups, faces, uv_layers, modifiers, bones,
           materials, slots, mesh_cache, bone_cache, now, backups, images,
           registered, op, props, report >>

scene == << active, vertices, vertex_groups, faces, uv_layers, modifiers, bones,
            materials, slots, images >>

-----------------------------------------------------------------------------
(* Program constants *)

ANIMESH_MAX_BONES == 110

ANIMESH_MAX_TRIANGLES == 32768

\* weights are counted in 1/10000: "if g.weight < 0.001"
ZeroWeightLimit == 10

\* FloatProperty ratio: min=0.01, max=1.0, default=0.5, in hundredths
RatioMin == 1

RatioMax == 100

RatioDefault == 50

\* "Targets 80% of Animesh limit", in hundredths
TargetPercent == 80

-----------------------------------------------------------------------------
(* Bounds of the model *)

MaxBones == 3

MaxVerts == 2

MaxFaces == 2

MaxMods == 2

MaxTime == 1

MeshName == "Body"

ArmatureName == "Armature"

GroupNames == << "mHead", "mNeck", "mChest" >>

BoneNames == { "mHead", "mNeck", "mChest", "Root" }

-----------------------------------------------------------------------------
(* Helpers *)

SeqsUpTo(S, n) == UNION { [1..k -> S] : k \in 0..n }

Range(s) == { s[i] : i \in DOMAIN s }

RemoveAt(s, i) == SubSeq(s, 1, i - 1) \o SubSeq(s, i + 1, Len(s))

RECURSIVE SumSeq(_)
SumSeq(s) == IF s = << >> THEN 0 ELSE Head(s) + SumSeq(Tail(s))

IsMesh == active = MeshName

\* for mod in obj.modifiers: if mod.type == 'ARMATURE' and mod.object: ... break
FindArmature(mods) ==
    LET hits == { i \in DOMAIN mods : mods[i].type = "ARMATURE" /\ mods[i].object # "None" }
    IN  IF hits = {} THEN "None"
        ELSE mods[CHOOSE i \in hits : \A j \in hits : i <= j].object

\* len([b for b in armature.data.bones if b.use_deform])
DeformCount(bs) == Cardinality({ i \in DOMAIN bs : bs[i].use_deform })

\* sum(1 for f in bm.faces for _ in range(len(f.verts) - 2))
TriangleCount(fs) ==
    SumSeq([ i \in DOMAIN fs |-> IF fs[i] - 2 > 0 THEN fs[i] - 2 ELSE 0 ])

\* the vertices v with len(v.groups) == 0
Unweighted(vs) == { i \in DOMAIN vs : Len(vs[i]) = 0 }

NoProps == << >>

Cancelled(msg) == [ ret |-> "CANCELLED", level |-> "ERROR", msg |-> msg, args |-> << >> ]

-----------------------------------------------------------------------------
(* animesh.py: AVASTAR_OT_animesh_validate *)

\* ValidateIssues with the limits themselves rejected (">=" for ">")
ValidateIssuesExclusive(bs, fs, vs) ==
    << [ ok |-> ~(DeformCount(bs) >= ANIMESH_MAX_BONES), n |-> DeformCount(bs) ],
       [ ok |-> ~(TriangleCount(fs) >= ANIMESH_MAX_TRIANGLES), n |-> TriangleCount(fs) ],
       [ ok |-> Unweighted(vs) = {}, n |-> Cardinality(Unweighted(vs)) ] >>

ValidateIssues(bs, fs, vs) ==
    << [ ok |-> ~(DeformCount(bs) > ANIMESH_MAX_BONES), n |-> DeformCount(bs) ],
       [ ok |-> ~(TriangleCount(fs) > ANIMESH_MAX_TRIANGLES), n |-> TriangleCount(fs) ],
       [ ok |-> Unweighted(vs) = {}, n |-> Cardinality(Unweighted(vs)) ] >>

ValidateReport ==
    IF ~IsMesh THEN Cancelled("Please select a mesh object")
    ELSE IF FindArmature(modifiers) = "None" THEN Cancelled("Mesh has no armature modifier")
    ELSE LET issues == ValidateIssues(bones, faces, vertices)
         IN  IF \A i \in DOMAIN issues : issues[i].ok
             THEN [ ret |-> "FINISHED", level |-> "INFO",
                    msg |-> "Mesh is Animesh compatible!", args |-> issues ]
             ELSE [ ret |-> "FINISHED", level |-> "WARNING",
                    msg |-> "Mesh has Animesh compatibility issues", args |-> issues ]

\* animesh_validate writing its triangulated bmesh back to the mesh
\* (bm.to_mesh(obj.data) before bm.free())
animesh_validate_writing_back ==
    /\ registered
    /\ op' = "animesh_validate"
    /\ props' = NoProps
    /\ report' = ValidateReport
    /\ faces' = IF IsMesh THEN [ i \in 1..TriangleCount(faces) |-> 3 ] ELSE faces
    /\ UNCHANGED << active, vertices, vertex_groups, uv_layers, modifiers, bones,
                    materials, slots, images, mesh_cache, bone_cache, now, backups,
                    registered >>

animesh_validate ==
    /\ registered
    /\ op' = "animesh_validate"
    /\ props' = NoProps
    /\ report' = ValidateReport
    /\ UNCHANGED << scene, mesh_cache, bone_cache, now, backups, registered >>

-----------------------------------------------------------------------------
(* animesh.py: AVASTAR_OT_animesh_optimize_bones *)

\* used_bones: the names of the vertex groups some vertex is assigned to
UsedBones(vs, vgs) ==
    UNION { { vgs[g.group + 1] : g \in { x \in Range(vs[v]) : x.group < Len(vgs) } } :
            v \in DOMAIN vs }

(* "for bone in armature.data.edit_bones: ... edit_bones.remove(bone)": the   *)
(* collection is changed while it is iterated.  What the iterator yields    *)
(* after the bone it stands on was removed is not defined by the host: it   *)
(* goes on with the removed bone's successor ("next"), it passes over that  *)
(* successor ("skip"), or it ends ("stop").                                 *)
IterModes == { "next", "skip", "stop" }

\* one pass of the loop body: the iterator stands on eb[pos]
RemoveUnusedStep(st, used, mode) ==
    IF st.pos > Len(st.eb) THEN st
    ELSE IF st.eb[st.pos].use_deform /\ st.eb[st.pos].name \notin used
         THEN CASE mode = "next" -> [ eb |-> RemoveAt(st.eb, st.pos), pos |-> st.pos ]
                [] mode = "skip" -> [ eb |-> RemoveAt(st.eb, st.pos), pos |-> st.pos + 1 ]
                [] mode = "stop" -> [ eb |-> RemoveAt(st.eb, st.pos), pos |-> Len(st.eb) ]
         ELSE [ eb |-> st.eb, pos |-> st.pos + 1 ]

\* k passes of the loop body, the first half of them before the second
RECURSIVE RemoveUnusedSteps(_, _, _, _)
RemoveUnusedSteps(st, used, mode, k) ==
    IF k = 0 THEN st
    ELSE IF k = 1 THEN RemoveUnusedStep(st, used, mode)
    ELSE LET half == RemoveUnusedSteps(st, used, mode, k \div 2)
         IN  IF half.pos > 0 THEN RemoveUnusedSteps(half, used, mode, k - (k \div 2))
             ELSE half

\* the loop ends when the iterator has passed the last bone, after at most
\* len(edit_bones) passes
RemoveUnusedLoop(eb, used, mode) ==
    RemoveUnusedSteps([ eb |-> eb, pos |-> 1 ], used, mode, Len(eb)).eb

animesh_optimize_bones ==
    \E remove_unused \in BOOLEAN, mode \in IterModes :
        /\ registered
        /\ op' = "animesh_optimize_bones"
        /\ props' = [ remove_unused |-> remove_unused ]
        /\ IF ~IsMesh
           THEN /\ report' = Cancelled("Please select a mesh object")
                /\ UNCHANGED bones
           ELSE IF FindArmature(modifiers) = "None"
           THEN /\ report' = Cancelled("Mesh has no armature modifier")
                /\ UNCHANGED bones
           ELSE LET initial_bone_count == DeformCount(bones)
                    after == IF remove_unused
                             THEN RemoveUnusedLoop(bones, UsedBones(vertices, vertex_groups), mode)
                             ELSE bones
                    final_bone_count == DeformCount(after)
                IN  /\ bones' = after
                    /\ report' = [ ret |-> "FINISHED", level |-> "INFO",
                                   msg |-> "Removed {} unused bones ({} remaining)",
                                   args |-> << initial_bone_count - final_bone_count,
                                               final_bone_count >> ]
        /\ UNCHANGED << active, vertices, vertex_groups, faces, uv_layers, modifiers,
                        materials, slots, images, mesh_cache, bone_cache, now, backups,
                        registered >>

-----------------------------------------------------------------------------
(* animesh.py: AVASTAR_OT_animesh_reduce_triangles *)

\* obj.modifiers.new(name, type): the host makes the name unique in the stack
UniqueModName(mods, base) ==
    LET names == { mods[i].name : i \in DOMAIN mods }
        n == Cardinality({ i \in DOMAIN mods : mods[i].type = "DECIMATE" })
    IN  IF base \notin names THEN base ELSE base \o "." \o ToString(n)

Ratios == { RatioMin, RatioDefault, RatioMax }

animesh_reduce_triangles ==
    \E ratio \in Ratios :
        /\ registered
        /\ op' = "animesh_reduce_triangles"
        /\ props' = [ ratio |-> ratio ]
        /\ IF ~IsMesh
           THEN /\ report' = Cancelled("Please select a mesh object")
                /\ UNCHANGED modifiers
           ELSE /\ Len(modifiers) < MaxMods
                /\ modifiers' = Append(modifiers,
                                   [ name |-> UniqueModName(modifiers, "Animesh_Decimate"),
                                     type |-> "DECIMATE", object |-> "None", ratio |-> ratio ])
                /\ report' = [ ret |-> "FINISHED", level |-> "INFO",
                               msg |-> "Added decimate modifier with {}% ratio",
                               args |-> << ratio >> ]
        /\ UNCHANGED << active, vertices, vertex_groups, faces, uv_layers, bones,
                        materials, slots, images, mesh_cache, bone_cache, now, backups,
                        registered >>

-----------------------------------------------------------------------------
(* performance.py: the caches *)

EmptyCache == [ n \in {} |-> 0 ]

\* clear_performance_caches(): _mesh_cache.clear(); _bone_cache.clear()
ClearedCaches == << EmptyCache, EmptyCache >>

\* CachedMeshData with an entry whose counts are out of date replaced
CachedMeshDataRefreshing(cache, name, vs, fs, t) ==
    IF \/ name \notin DOMAIN cache
       \/ cache[name].vertex_count # Len(vs)
       \/ cache[name].polygon_count # Len(fs)
    THEN [ n \in (DOMAIN cache) \cup { name } |->
             IF n = name
             THEN [ vertex_count |-> Len(vs), polygon_count |-> Len(fs), timestamp |-> t ]
             ELSE cache[n] ]
    ELSE cache

\* get_cached_mesh_data(obj): _mesh_cache after the call; the call returns
\* the entry under obj.name
CachedMeshData(cache, name, vs, fs, t) ==
    IF name \notin DOMAIN cache
    THEN [ n \in (DOMAIN cache) \cup { name } |->
             IF n = name
             THEN [ vertex_count |-> Len(vs), polygon_count |-> Len(fs), timestamp |-> t ]
             ELSE cache[n] ]
    ELSE cache

-----------------------------------------------------------------------------
(* performance.py: AVASTAR_OT_performance_profile *)
(* The warnings go to the log only and are not part of the state.          *)

performance_profile ==
    /\ registered
    /\ op' = "performance_profile"
    /\ props' = NoProps
    /\ IF active = "None"
       THEN /\ report' = Cancelled("No active object")
            /\ UNCHANGED mesh_cache
       ELSE LET cache == IF IsMesh
                         THEN CachedMeshData(mesh_cache, active, vertices, faces, now)
                         ELSE mesh_cache
                mesh_lines == IF IsMesh
                              THEN << [ label |-> "Vertices", n |-> cache[active].vertex_count ],
                                      [ label |-> "Polygons", n |-> cache[active].polygon_count ],
                                      [ label |-> "Modifiers", n |-> Len(modifiers) ],
                                      [ label |-> "Weight Groups", n |-> Len(vertex_groups) ] >>
                              ELSE << >>
                armature == IF IsMesh THEN FindArmature(modifiers) ELSE "None"
                bone_lines == IF armature # "None"
                              THEN << [ label |-> "Total Bones", n |-> Len(bones) ],
                                      [ label |-> "Deform Bones", n |-> DeformCount(bones) ] >>
                              ELSE << >>
            IN  /\ mesh_cache' = cache
                /\ report' = [ ret |-> "FINISHED", level |-> "INFO", msg |-> "report",
                               args |-> mesh_lines \o bone_lines ]
    /\ UNCHANGED << scene, bone_cache, now, backups, registered >>

-----------------------------------------------------------------------------
(* performance.py: AVASTAR_OT_performance_optimize_scene *)

\* obj.vertex_groups[grp].remove([v]): vertex v leaves group grp
GroupRemoveVertex(vs, v, grp) ==
    [ vs EXCEPT ![v] = SelectSeq(@, LAMBDA g : g.group # grp) ]

\* IsZeroWeight with the limit itself counted as zero ("<=" for "<")
IsZeroWeightInclusive(g) == g.weight <= ZeroWeightLimit

\* "if g.weight < 0.001"
IsZeroWeight(g) == g.weight < ZeroWeightLimit

\* for g in list(v.groups): the loop runs over a copy of v.groups taken before
\* the first removal; k is the position in that copy
RECURSIVE CleanVertex(_, _, _, _)
CleanVertex(vs, v, snapshot, k) ==
    IF k > Len(snapshot) THEN [ vs |-> vs, cleaned |-> 0 ]
    ELSE IF IsZeroWeight(snapshot[k])
         THEN LET rest == CleanVertex(GroupRemoveVertex(vs, v, snapshot[k].group),
                                      v, snapshot, k + 1)
              IN  [ vs |-> rest.vs, cleaned |-> rest.cleaned + 1 ]
         ELSE CleanVertex(vs, v, snapshot, k + 1)

\* for v in obj.data.vertices: ...
RECURSIVE CleanWeights(_, _)
CleanWeights(vs, v) ==
    IF v > Len(vs) THEN [ vs |-> vs, cleaned |-> 0 ]
    ELSE LET one == CleanVertex(vs, v, vs[v], 1)
             rest == CleanWeights(one.vs, v + 1)
         IN  [ vs |-> rest.vs, cleaned |-> one.cleaned + rest.cleaned ]

\* used_groups: the g.group of every assignment
UsedGroups(vs) == UNION { { g.group : g \in Range(vs[v]) } : v \in DOMAIN vs }

\* obj.vertex_groups.remove(obj.vertex_groups[i]): the group leaves the list,
\* its assignments go, and the groups after it move down one index
VertexGroupsRemove(m, i) ==
    [ vgs |-> RemoveAt(m.vgs, i + 1),
      vs |-> [ v \in DOMAIN m.vs |->
                 LET kept == SelectSeq(m.vs[v], LAMBDA g : g.group # i)
                 IN  [ k \in DOMAIN kept |->
                         IF kept[k].group > i
                         THEN [ kept[k] EXCEPT !.group = @ - 1 ]
                         ELSE kept[k] ] ] ]

\* RemoveUnusedGroups walking the indices upwards, range(len(obj.vertex_groups)):
\* the indices in used_groups go stale after the first removal
RECURSIVE RemoveUnusedAscendingFrom(_, _, _, _)
RemoveUnusedAscendingFrom(m, used, i, n) ==
    IF i >= n THEN [ vgs |-> m.vgs, vs |-> m.vs, removed |-> 0 ]
    ELSE IF i \notin used /\ i < Len(m.vgs)
         THEN LET rest == RemoveUnusedAscendingFrom(VertexGroupsRemove(m, i), used, i + 1, n)
              IN  [ rest EXCEPT !.removed = @ + 1 ]
         ELSE RemoveUnusedAscendingFrom(m, used, i + 1, n)

RemoveUnusedGroupsAscending(m, used, i) == RemoveUnusedAscendingFrom(m, used, 0, i + 1)

\* for i in range(len(obj.vertex_groups) - 1, -1, -1): if i not in used_groups
RECURSIVE RemoveUnusedGroups(_, _, _)
RemoveUnusedGroups(m, used, i) ==
    IF i < 0 THEN [ vgs |-> m.vgs, vs |-> m.vs, removed |-> 0 ]
    ELSE IF i \notin used
         THEN LET rest == RemoveUnusedGroups(VertexGroupsRemove(m, i), used, i - 1)
              IN  [ rest EXCEPT !.removed = @ + 1 ]
         ELSE RemoveUnusedGroups(m, used, i - 1)

\* obj.modifiers.find(name): the 0-based index of the modifier so named
ModFind(mods, name) == (CHOOSE i \in DOMAIN mods : mods[i].name = name) - 1

\* bpy.ops.object.modifier_move_down(modifier=name)
ModMoveDown(mods, name) ==
    LET i == ModFind(mods, name) + 1
    IN  [ mods EXCEPT ![i] = mods[i + 1], ![i + 1] = mods[i] ]

\* while obj.modifiers.find(mod.name) < len(obj.modifiers) - 1: move down
RECURSIVE MoveToEnd(_, _)
MoveToEnd(mods, name) ==
    IF ModFind(mods, name) < Len(mods) - 1
    THEN MoveToEnd(ModMoveDown(mods, name), name)
    ELSE mods

\* for mod in armature_mods: ...
RECURSIVE MoveAllToEnd(_, _)
MoveAllToEnd(mods, names) ==
    IF names = << >> THEN mods
    ELSE MoveAllToEnd(MoveToEnd(mods, Head(names)), Tail(names))

ArmatureMods(mods) ==
    LET sel == SelectSeq(mods, LAMBDA m : m.type = "ARMATURE")
    IN  [ k \in DOMAIN sel |-> sel[k].name ]

performance_optimize_scene ==
    \E clean_weights \in BOOLEAN, remove_unused_groups \in BOOLEAN,
       optimize_modifiers \in BOOLEAN :
        /\ registered
        /\ op' = "performance_optimize_scene"
        /\ props' = [ clean_weights |-> clean_weights,
                      remove_unused_groups |-> remove_unused_groups,
                      optimize_modifiers |-> optimize_modifiers ]
        /\ IF ~IsMesh
           THEN /\ report' = Cancelled("Please select a mesh object")
                /\ UNCHANGED << vertices, vertex_groups, modifiers, mesh_cache, bone_cache >>
           ELSE LET c == IF clean_weights THEN CleanWeights(vertices, 1)
                         ELSE [ vs |-> vertices, cleaned |-> 0 ]
                    m == [ vgs |-> vertex_groups, vs |-> c.vs ]
                    r == IF remove_unused_groups
                         THEN RemoveUnusedGroups(m, UsedGroups(c.vs), Len(vertex_groups) - 1)
                         ELSE [ vgs |-> m.vgs, vs |-> m.vs, removed |-> 0 ]
                    armature_mods == IF optimize_modifiers THEN ArmatureMods(modifiers)
                                     ELSE << >>
                    changes ==
                        (IF c.cleaned > 0
                         THEN << [ text |-> "Cleaned {} zero-weight assignments",
                                   n |-> c.cleaned ] >> ELSE << >>)
                        \o (IF r.removed > 0
                            THEN << [ text |-> "Removed {} unused weight groups",
                                      n |-> r.removed ] >> ELSE << >>)
                        \o (IF armature_mods # << >>
                            THEN << [ text |-> "Optimized modifier stack ({} armature mods)",
                                      n |-> Len(armature_mods) ] >> ELSE << >>)
                        \o << [ text |-> "Cleared performance caches", n |-> 0 ] >>
                IN  /\ vertices' = r.vs
                    /\ vertex_groups' = r.vgs
                    /\ modifiers' = MoveAllToEnd(modifiers, armature_mods)
                    /\ mesh_cache' = ClearedCaches[1]
                    /\ bone_cache' = ClearedCaches[2]
                    /\ report' = [ ret |-> "FINISHED", level |-> "INFO",
                                   msg |-> "changes", args |-> changes ]
        /\ UNCHANGED << active, faces, uv_layers, bones, materials, slots, images,
                        now, backups, registered >>

-----------------------------------------------------------------------------
(* performance.py: register / unregister *)

NoReport == [ ret |-> "None", level |-> "None", msg |-> "", args |-> << >> ]

register ==
    /\ ~registered
    /\ registered' = TRUE
    /\ op' = "register"
    /\ props' = NoProps
    /\ report' = NoReport
    /\ UNCHANGED << scene, mesh_cache, bone_cache, now, backups >>

unregister ==
    /\ registered
    /\ registered' = FALSE
    /\ mesh_cache' = ClearedCaches[1]
    /\ bone_cache' = ClearedCaches[2]
    /\ op' = "unregister"
    /\ props' = NoProps
    /\ report' = NoReport
    /\ UNCHANGED << scene, now, backups >>

-----------------------------------------------------------------------------
(* The user, editing the scene between operator runs *)

user_add_vertex ==
    /\ Len(vertices) < MaxVerts
    /\ vertices' = Append(vertices, << >>)
    /\ op' = "user"
    /\ props' = NoProps
    /\ UNCHANGED << active, vertex_groups, faces, uv_layers, modifiers, bones, materials,
                    slots, images, mesh_cache, bone_cache, now, backups, registered, report >>

user_delete_vertex ==
    /\ Len(vertices) > 0
    /\ vertices' = SubSeq(vertices, 1, Len(vertices) - 1)
    /\ op' = "user"
    /\ props' = NoProps
    /\ UNCHANGED << active, vertex_groups, faces, uv_layers, modifiers, bones, materials,
                    slots, images, mesh_cache, bone_cache, now, backups, registered, report >>

user_add_face ==
    /\ Len(faces) < MaxFaces
    /\ faces' = Append(faces, 3)
    /\ op' = "user"
    /\ props' = NoProps
    /\ UNCHANGED << active, vertices, vertex_groups, uv_layers, modifiers, bones, materials,
                    slots, images, mesh_cache, bone_cache, now, backups, registered, report >>

user_delete_face ==
    /\ Len(faces) > 0
    /\ faces' = SubSeq(faces, 1, Len(faces) - 1)
    /\ op' = "user"
    /\ props' = NoProps
    /\ UNCHANGED << active, vertices, vertex_groups, uv_layers, modifiers, bones, materials,
                    slots, images, mesh_cache, bone_cache, now, backups, registered, report >>

user_select ==
    /\ \E a \in { MeshName, ArmatureName, "None" } : a # active /\ active' = a
    /\ op' = "user"
    /\ props' = NoProps
    /\ UNCHANGED << vertices, vertex_groups, faces, uv_layers, modifiers, bones, materials,
                    slots, images, mesh_cache, bone_cache, now, backups, registered, report >>

tick ==
    /\ now < MaxTime
    /\ now' = now + 1
    /\ op' = "tick"
    /\ props' = NoProps
    /\ UNCHANGED << scene, mesh_cache, bone_cache, backups, registered, report >>

-----------------------------------------------------------------------------
(* bom.py: materials and node trees *)
(* A material is [use_nodes, node_tree]; node_tree is None, written << >>,  *)
(* until use_nodes is first set (bom.py sets use_nodes before it reads      *)
(* node_tree, lines 78 and 149-150), and then << [nodes, links] >>.  Socket *)
(* values are in tenths.                                                    *)

NoTree == << >>

MaxNodes == 3

MaxSlots == 2

LayerTypes == { "SKIN", "TATTOO", "CLOTHING", "EYEBROW", "HAIR" }

NodeNames(tree) == { tree.nodes[i].name : i \in DOMAIN tree.nodes }

\* the host keeps node names unique in a tree: base, base.001, base.002, ...
UniqueNodeName(tree, base) ==
    IF base \notin NodeNames(tree) THEN base
    ELSE LET free == { k \in 1..(Len(tree.nodes) + 1) :
                         (base \o ".00" \o ToString(k)) \notin NodeNames(tree) }
         IN  base \o ".00" \o ToString(CHOOSE k \in free : \A j \in free : k <= j)

\* nodes.new(type): a node of the type with the type's name and default values
NewNode(tree, type) ==
    CASE type = "ShaderNodeBsdfPrincipled" ->
            [ type |-> type, name |-> UniqueNodeName(tree, "Principled BSDF"), label |-> "",
              location |-> << 0, 0 >>, image |-> "None", Specular |-> 5, Roughness |-> 5 ]
      [] type = "ShaderNodeOutputMaterial" ->
            [ type |-> type, name |-> UniqueNodeName(tree, "Material Output"), label |-> "",
              location |-> << 0, 0 >>, image |-> "None", Specular |-> 0, Roughness |-> 0 ]
      [] type = "ShaderNodeTexImage" ->
            [ type |-> type, name |-> UniqueNodeName(tree, "Image Texture"), label |-> "",
              location |-> << 0, 0 >>, image |-> "None", Specular |-> 0, Roughness |-> 0 ]

NodesNew(tree, type) == [ tree EXCEPT !.nodes = Append(@, NewNode(tree, type)) ]

\* nodes.clear(): every node goes, and every link with them
NodesClear(tree) == [ nodes |-> << >>, links |-> {} ]

\* links.new(output, input): an input socket holds one link; the new one
\* replaces the one it held
LinksNew(tree, from_node, from_socket, to_node, to_socket) ==
    [ tree EXCEPT !.links =
        { l \in @ : ~(l.to_node = to_node /\ l.to_socket = to_socket) }
        \cup { [ from_node |-> from_node, from_socket |-> from_socket,
                 to_node |-> to_node, to_socket |-> to_socket ] } ]

\* the tree a material gets when use_nodes is first set
DefaultTree ==
    LET t1 == NodesNew(NodesClear(<< >>), "ShaderNodeBsdfPrincipled")
        t2 == NodesNew(t1, "ShaderNodeOutputMaterial")
        t3 == [ t2 EXCEPT !.nodes[2].location = << 300, 0 >> ]
    IN  LinksNew(t3, "Principled BSDF", "BSDF", "Material Output", "Surface")

\* bpy.data.materials.new(name): no nodes yet
NewMaterial == [ use_nodes |-> FALSE, node_tree |-> NoTree ]

\* mat.use_nodes = True
SetUseNodes(mat) ==
    [ use_nodes |-> TRUE,
      node_tree |-> IF mat.node_tree = NoTree THEN << DefaultTree >> ELSE mat.node_tree ]

SetMaterial(mats, name, mat) ==
    [ n \in (DOMAIN mats) \cup { name } |-> IF n = name THEN mat ELSE mats[n] ]

\* f"{obj.name}_BoM"
BomMaterialName(obj) == obj \o "_BoM"

\* f"{obj.name}_{layer_type}_BoM"
BomImageName(obj, layer_type) == obj \o "_" \o layer_type \o "_BoM"

\* the node tree bom_setup_material builds in place of the nodes it finds
BomTree(tree) ==
    LET t0 == NodesClear(tree)
        t1 == NodesNew(t0, "ShaderNodeBsdfPrincipled")
        bsdf == t1.nodes[Len(t1.nodes)].name
        t2 == [ t1 EXCEPT !.nodes[Len(t1.nodes)].location = << 0, 0 >> ]
        t3 == NodesNew(t2, "ShaderNodeOutputMaterial")
        output == t3.nodes[Len(t3.nodes)].name
        t4 == [ t3 EXCEPT !.nodes[Len(t3.nodes)].location = << 300, 0 >> ]
        t5 == LinksNew(t4, bsdf, "BSDF", output, "Surface")
    IN  [ t5 EXCEPT !.nodes[1].Specular = 0, !.nodes[1].Roughness = 10 ]

\* "if obj.data.materials: obj.data.materials[0] = mat; else: append(mat)"
AssignSlot(sl, name) ==
    IF Len(sl) > 0 THEN [ sl EXCEPT ![1] = name ] ELSE Append(sl, name)

-----------------------------------------------------------------------------
(* bom.py: AVASTAR_OT_bom_setup_material *)

bom_setup_material ==
    /\ registered
    /\ op' = "bom_setup_material"
    /\ props' = NoProps
    /\ IF ~IsMesh
       THEN /\ report' = Cancelled("Please select a mesh object")
            /\ UNCHANGED << materials, slots >>
       ELSE IF uv_layers = 0
       THEN /\ report' = Cancelled("Mesh has no UV maps. Add UV coordinates first.")
            /\ UNCHANGED << materials, slots >>
       ELSE LET mat_name == BomMaterialName(active)
                mat == IF mat_name \in DOMAIN materials THEN materials[mat_name]
                       ELSE SetUseNodes(NewMaterial)
            IN  IF mat.node_tree = NoTree
                THEN \* mat.node_tree.nodes raises: None has no attribute 'nodes'
                     /\ report' = [ ret |-> "EXCEPTION", level |-> "ERROR",
                                    msg |-> "AttributeError", args |-> << >> ]
                     /\ UNCHANGED << materials, slots >>
                ELSE /\ materials' = SetMaterial(materials, mat_name,
                                        [ mat EXCEPT !.node_tree = << BomTree(@[1]) >> ])
                     /\ slots' = AssignSlot(slots, mat_name)
                     /\ report' = [ ret |-> "FINISHED", level |-> "INFO",
                                    msg |-> "BoM material '{}' created successfully",
                                    args |-> << mat_name >> ]
    /\ UNCHANGED << active, vertices, vertex_groups, faces, uv_layers, modifiers, bones,
                    images, mesh_cache, bone_cache, now, backups, registered >>

-----------------------------------------------------------------------------
(* bom.py: AVASTAR_OT_bom_add_layer_slot *)

\* obj.active_material: the material in the active slot, slot 0
ActiveMaterial == IF Len(slots) > 0 THEN slots[1] ELSE "None"

\* nodes.get(name)
NodesGet(tree, name) ==
    LET hits == { i \in DOMAIN tree.nodes : tree.nodes[i].name = name }
    IN  IF hits = {} THEN 0 ELSE CHOOSE i \in hits : TRUE

bom_add_layer_slot ==
    \E layer_type \in LayerTypes :
        /\ registered
        /\ op' = "bom_add_layer_slot"
        /\ props' = [ layer_type |-> layer_type ]
        /\ IF ~IsMesh
           THEN /\ report' = Cancelled("Please select a mesh object")
                /\ UNCHANGED << materials, images >>
           ELSE IF ActiveMaterial = "None"
           THEN /\ report' = Cancelled("No active material. Run 'Setup BoM Material' first")
                /\ UNCHANGED << materials, images >>
           ELSE LET mat == IF materials[ActiveMaterial].use_nodes
                           THEN materials[ActiveMaterial]
                           ELSE SetUseNodes(materials[ActiveMaterial])
                    tree == mat.node_tree[1]
                IN  IF NodesGet(tree, "Principled BSDF") = 0
                    THEN /\ report' = Cancelled("Material is not BoM compatible")
                         /\ materials' = SetMaterial(materials, ActiveMaterial, mat)
                         /\ UNCHANGED images
                    ELSE /\ Len(tree.nodes) < MaxNodes
                         /\ LET t1 == NodesNew(tree, "ShaderNodeTexImage")
                                k == Len(t1.nodes)
                                name == UniqueNodeName(tree, "BoM_" \o layer_type)
                                img == BomImageName(active, layer_type)
                                t2 == [ t1 EXCEPT ![ "nodes" ][k].name = name,
                                                  ![ "nodes" ][k].label = "BoM " \o layer_type,
                                                  ![ "nodes" ][k].location = << -400, 0 >>,
                                                  ![ "nodes" ][k].image = img ]
                                t3 == LinksNew(t2, name, "Color", "Principled BSDF", "Base Color")
                            IN  /\ materials' = SetMaterial(materials, ActiveMaterial,
                                                   [ mat EXCEPT !.node_tree = << t3 >> ])
                                /\ images' = images \cup { img }
                         /\ report' = [ ret |-> "FINISHED", level |-> "INFO",
                                        msg |-> "Added {} BoM layer to material",
                                        args |-> << layer_type >> ]
        /\ UNCHANGED << active, vertices, vertex_groups, faces, uv_layers, modifiers, bones,
                        slots, mesh_cache, bone_cache, now, backups, registered >>

-----------------------------------------------------------------------------
(* Scenes the operators are run on *)

NoMaterials == [ n \in {} |-> 0 ]

ArmatureModifier(obj) ==
    [ name |-> "Armature", type |-> "ARMATURE", object |-> obj, ratio |-> 0 ]

DecimateModifier ==
    [ name |-> "Decimate", type |-> "DECIMATE", object |-> "None", ratio |-> RatioDefault ]

\* v.groups of a vertex assigned to group i with weight f[i], for the i with f[i] >= 0
RECURSIVE GroupsOf(_, _, _)
GroupsOf(f, i, n) ==
    IF i >= n THEN << >>
    ELSE (IF f[i] < 0 THEN << >> ELSE << [ group |-> i, weight |-> f[i] ] >>)
         \o GroupsOf(f, i + 1, n)

VertexChoices(n, W) == { GroupsOf(f, 0, n) : f \in [ 0..(n - 1) -> W \cup { -1 } ] }

\* a weight well above the limit
FullWeight == 500 * ZeroWeightLimit

\* weights just below and at the limit of 0.001
EdgeWeights == { ZeroWeightLimit - 1, ZeroWeightLimit }

\* d deform bones followed by nd control bones
GenBones(d, nd) ==
    [ i \in 1..(d + nd) |-> [ name |-> "mBone" \o ToString(i), use_deform |-> i <= d ] ]

GenGroups(n) == [ i \in 1..n |-> "mBone" \o ToString(i) ]

\* one vertex assigned to the groups first..n-1 (0-based)
GenVertex(first, n) ==
    << [ k \in 1..(n - first) |-> [ group |-> first + k - 1, weight |-> FullWeight ] ] >>

\* armatures of at most MaxBones bones with distinct names
SmallArmatures ==
    { bs \in SeqsUpTo([ name : BoneNames, use_deform : BOOLEAN ], MaxBones) :
        \A i, j \in DOMAIN bs : bs[i].name = bs[j].name => i = j }

\* faces whose triangle counts reach the limit: a triangle, a quad, and n-gons
\* of ANIMESH_MAX_TRIANGLES - 1 and ANIMESH_MAX_TRIANGLES triangles
FaceSizes == { 3, 4, ANIMESH_MAX_TRIANGLES + 1, ANIMESH_MAX_TRIANGLES + 2 }

InitRest ==
    /\ uv_layers = 1
    /\ materials = NoMaterials
    /\ slots = << >>
    /\ images = {}
    /\ mesh_cache = EmptyCache
    /\ bone_cache = EmptyCache
    /\ now = 0
    /\ backups = {}
    /\ registered = TRUE
    /\ op = "init"
    /\ props = NoProps
    /\ report = NoReport

-----------------------------------------------------------------------------
(* animesh_validate on armatures and meshes around the limits *)

InitValidate ==
    /\ active \in { MeshName, ArmatureName, "None" }
    /\ modifiers \in { << >>, << ArmatureModifier("None") >>,
                       << DecimateModifier, ArmatureModifier(ArmatureName) >> }
    /\ bones \in { GenBones(d, nd) : d \in { 1, ANIMESH_MAX_BONES, ANIMESH_MAX_BONES + 1 },
                                     nd \in { 0, 1 } }
    /\ faces \in SeqsUpTo(FaceSizes, MaxFaces)
    /\ vertex_groups = GroupNames
    /\ vertices \in SeqsUpTo(VertexChoices(1, { FullWeight }), MaxVerts)
    /\ InitRest

NextValidate == animesh_validate \/ user_select

SpecValidate == InitValidate /\ [][NextValidate]_vars

-----------------------------------------------------------------------------
(* animesh_optimize_bones on small armatures in every order, and on         *)
(* armatures around the bone limit                                          *)

InitBones ==
    /\ active \in { MeshName, "None" }
    /\ modifiers \in { << >>, << ArmatureModifier(ArmatureName) >> }
    /\ faces = << 3 >>
    /\ \/ /\ bones \in SmallArmatures
          /\ vertex_groups = GroupNames
          /\ vertices \in { << v >> : v \in VertexChoices(Len(GroupNames), { FullWeight }) }
       \/ \E n \in { ANIMESH_MAX_BONES, ANIMESH_MAX_BONES + 1 } :
             /\ bones = GenBones(n, 1)
             /\ vertex_groups = GenGroups(n)
             /\ vertices \in { GenVertex(0, n), GenVertex(2, n), GenVertex(n, n) }
    /\ InitRest

NextBones == animesh_optimize_bones \/ animesh_validate

SpecBones == InitBones /\ [][NextBones]_vars

-----------------------------------------------------------------------------
(* animesh_reduce_triangles on meshes around the triangle limit *)

InitDecimate ==
    /\ active \in { MeshName, ArmatureName, "None" }
    /\ modifiers \in { << >>, << ArmatureModifier(ArmatureName) >> }
    /\ bones = GenBones(1, 1)
    /\ faces \in SeqsUpTo(FaceSizes, MaxFaces)
    /\ vertex_groups = GroupNames
    /\ vertices = << << [ group |-> 0, weight |-> FullWeight ] >> >>
    /\ InitRest

NextDecimate == animesh_reduce_triangles \/ animesh_validate \/ user_select

SpecDecimate == InitDecimate /\ [][NextDecimate]_vars

-----------------------------------------------------------------------------
(* the performance cache while the user edits the mesh *)

InitCache ==
    /\ active = MeshName
    /\ modifiers = << ArmatureModifier(ArmatureName), DecimateModifier >>
    /\ bones = GenBones(1, 1)
    /\ faces = << >>
    /\ vertex_groups = << >>
    /\ vertices = << >>
    /\ InitRest

NextCache ==
    \/ performance_profile
    \/ performance_optimize_scene
    \/ register
    \/ unregister
    \/ user_add_vertex
    \/ user_delete_vertex
    \/ user_add_face
    \/ user_delete_face
    \/ user_select
    \/ tick

SpecCache == InitCache /\ [][NextCache]_vars

-----------------------------------------------------------------------------
(* performance_optimize_scene on weighted meshes *)

InitOptimize ==
    /\ active = MeshName
    /\ modifiers = << >>
    /\ bones = GenBones(1, 1)
    /\ faces = << 3 >>
    /\ vertex_groups = GroupNames
    /\ vertices \in SeqsUpTo(VertexChoices(Len(GroupNames), EdgeWeights), MaxVerts)
    /\ InitRest

NextOptimize == performance_optimize_scene

SpecOptimize == InitOptimize /\ [][NextOptimize]_vars

-----------------------------------------------------------------------------
(* the BoM operators on meshes with and without materials of their own *)

\* a material whose nodes the user has set up: the default tree
NodeMaterial(use) == [ use_nodes |-> use, node_tree |-> << DefaultTree >> ]

MaterialChoices == { NewMaterial, NodeMaterial(TRUE), NodeMaterial(FALSE) }

InitBom ==
    /\ active \in { MeshName, "None" }
    /\ uv_layers \in { 0, 1 }
    /\ \E names \in SUBSET { BomMaterialName(MeshName), "Skin" } :
          /\ materials \in [ names -> MaterialChoices ]
          /\ slots \in { sl \in SeqsUpTo(names \cup { "None" }, MaxSlots) :
                           \A i, j \in DOMAIN sl : sl[i] = sl[j] => i = j }
    /\ modifiers = << >>
    /\ bones = GenBones(1, 1)
    /\ faces = << 3 >>
    /\ vertex_groups = GroupNames
    /\ vertices = << << [ group |-> 0, weight |-> FullWeight ] >> >>
    /\ images = {}
    /\ mesh_cache = EmptyCache
    /\ bone_cache = EmptyCache
    /\ now = 0
    /\ backups = {}
    /\ registered = TRUE
    /\ op = "init"
    /\ props = NoProps
    /\ report = NoReport

NextBom == bom_setup_material \/ bom_add_layer_slot

SpecBom == InitBom /\ [][NextBom]_vars

-----------------------------------------------------------------------------
(* the reporting operators, animesh_validate and performance_profile, on    *)
(* scenes with meshes, armatures, modifiers and materials                   *)

InitReadOnly ==
    /\ active \in { MeshName, ArmatureName, "None" }
    /\ uv_layers = 1
    /\ \E names \in SUBSET { BomMaterialName(MeshName) } :
          /\ materials \in [ names -> { NodeMaterial(TRUE) } ]
          /\ slots \in { << n >> : n \in names } \cup { << >> }
    /\ modifiers \in { << >>, << ArmatureModifier("None") >>,
                       << DecimateModifier, ArmatureModifier(ArmatureName) >> }
    /\ bones \in { GenBones(1, 1), GenBones(ANIMESH_MAX_BONES + 1, 0) }
    /\ faces \in SeqsUpTo({ 4, ANIMESH_MAX_TRIANGLES + 2 }, MaxFaces)
    /\ vertex_groups = GroupNames
    /\ vertices \in SeqsUpTo(VertexChoices(1, { FullWeight }), MaxVerts - 1)
    /\ images = {}
    /\ mesh_cache = EmptyCache
    /\ bone_cache = EmptyCache
    /\ now = 0
    /\ backups = {}
    /\ registered = TRUE
    /\ op = "init"
    /\ props = NoProps
    /\ report = NoReport

NextReadOnly ==
    \/ animesh_validate
    \/ performance_profile
    \/ user_add_vertex
    \/ user_select

SpecReadOnly == InitReadOnly /\ [][NextReadOnly]_vars

-----------------------------------------------------------------------------
(* Properties *)

Finished(name) == op = name /\ report.ret = "FINISHED"

\* the entries of an operator's report whose text starts with the given word
Changes(rep, text) == { i \in DOMAIN rep.args : rep.args[i].text = text }

\* C1: animesh_validate, run on a mesh that has an armature modifier with an
\* object, returns FINISHED, and reports 'Mesh is Animesh compatible!' exactly
\* when the deform-bone count is <= 110, the triangle count is <= 32768 and
\* every vertex has a vertex-group assignment; otherwise it reports the
\* compatibility warning.
C1_ValidateVerdict ==
    (op = "animesh_validate" /\ IsMesh /\ FindArmature(modifiers) # "None") =>
        /\ report.ret = "FINISHED"
        /\ report.msg \in { "Mesh is Animesh compatible!",
                            "Mesh has Animesh compatibility issues" }
        /\ report.msg = "Mesh is Animesh compatible!" <=>
              /\ Cardinality({ i \in DOMAIN bones : bones[i].use_deform }) <= 110
              /\ SumSeq([ i \in DOMAIN faces |-> faces[i] - 2 ]) <= 32768
              /\ \A v \in DOMAIN vertices : Len(vertices[v]) > 0

\* C1's case: both limits met exactly, and the mesh passes
C1_Witness ==
    /\ Finished("animesh_validate")
    /\ report.msg = "Mesh is Animesh compatible!"
    /\ DeformCount(bones) = ANIMESH_MAX_BONES
    /\ TriangleCount(faces) = ANIMESH_MAX_TRIANGLES
    /\ Len(vertices) > 0

\* C2: every call of get_cached_mesh_data(obj) returns the vertex and polygon
\* counts the object's mesh has at the time of the call (the entry
\* performance_profile has just read is the one under the active mesh's name).
C2_CacheIsCurrent ==
    (Finished("performance_profile") /\ IsMesh) =>
        /\ mesh_cache[active].vertex_count = Len(vertices)
        /\ mesh_cache[active].polygon_count = Len(faces)

CachesCleared ==
    \/ op' = "unregister"
    \/ op' = "performance_optimize_scene" /\ report'.ret = "FINISHED"

WeightedGroups ==
    { vertex_groups[i] : i \in { j \in DOMAIN vertex_groups :
          \E v \in DOMAIN vertices : \E k \in DOMAIN vertices[v] :
              vertices[v][k].group = j - 1 } }

C5_MeetsBoneLimit ==
    Finished("animesh_optimize_bones") => DeformCount(bones) <= ANIMESH_MAX_BONES

\* C6: the ratio animesh_reduce_triangles writes to the decimate modifier it
\* adds takes the mesh to at most 80% of the triangle limit:
\* triangles * ratio <= 0.8 * 32768 (both sides in hundredths).
C6_TargetsEightyPercent ==
    Finished("animesh_reduce_triangles") =>
        TriangleCount(faces) * modifiers[Len(modifiers)].ratio
            <= TargetPercent * ANIMESH_MAX_TRIANGLES

\* C7: whenever performance_optimize_scene has changed weights, vertex groups
\* or the modifier stack, a copy of the object's earlier state exists.
C7_BackupBeforeChanges ==
    ( /\ Finished("performance_optimize_scene")
      /\ \E i \in DOMAIN report.args : report.args[i].n > 0 ) => backups # {}

Assignments(vs) == SumSeq([ v \in DOMAIN vs |-> Len(vs[v]) ])

ZeroAssignments(vs) ==
    SumSeq([ v \in DOMAIN vs |->
               Cardinality({ k \in DOMAIN vs[v] : vs[v][k].weight < ZeroWeightLimit }) ])

\* C8: performance_optimize_scene with clean_weights=True leaves no assignment
\* of weight < 0.001, keeps every assignment of weight >= 0.001 with its group
\* and weight and adds none, and reports 'Cleaned N' with N the number of
\* assignments removed (no such entry when none was).
C8_CleansZeroWeights ==
    [][ ( /\ op' = "performance_optimize_scene"
          /\ report'.ret = "FINISHED"
          /\ props'.clean_weights ) =>
        /\ \A v \in DOMAIN vertices' : \A k \in DOMAIN vertices'[v] :
              ~(vertices'[v][k].weight < ZeroWeightLimit)
        /\ DOMAIN vertices' = DOMAIN vertices
        /\ \A v \in DOMAIN vertices : \A k \in DOMAIN vertices[v] :
              vertices[v][k].weight >= ZeroWeightLimit =>
                 \E j \in DOMAIN vertices'[v] :
                    /\ vertex_groups'[vertices'[v][j].group + 1]
                          = vertex_groups[vertices[v][k].group + 1]
                    /\ vertices'[v][j].weight = vertices[v][k].weight
        /\ Assignments(vertices') = Assignments(vertices) - ZeroAssignments(vertices)
        /\ LET said == Changes(report', "Cleaned {} zero-weight assignments")
           IN  IF ZeroAssignments(vertices) = 0 THEN said = {}
               ELSE /\ Cardinality(said) = 1
                    /\ \A i \in said : report'.args[i].n = ZeroAssignments(vertices)
      ]_vars

\* C8's case: two assignments were cleaned and one at the limit itself is kept
C8_Witness ==
    /\ Finished("performance_optimize_scene")
    /\ props.clean_weights
    /\ \E i \in Changes(report, "Cleaned {} zero-weight assignments") :
          report.args[i].n >= 2
    /\ \E v \in DOMAIN vertices : \E k \in DOMAIN vertices[v] :
          vertices[v][k].weight = ZeroWeightLimit

\* the vertices assigned to the group of the given name with a weight >= least
Members(vs, vgs, name, least) ==
    { v \in DOMAIN vs : \E k \in DOMAIN vs[v] :
          /\ vgs[vs[v][k].group + 1] = name
          /\ vs[v][k].weight >= least }

\* C9: performance_optimize_scene with remove_unused_groups=True leaves only
\* vertex groups with a vertex assigned, keeps every group that has an
\* assignment (after the weight cleaning, when that runs) with its name and
\* its member vertices, and reports 'Removed N' with N the number of groups
\* removed (no such entry when none was).
C9_RemovesExactlyUnusedGroups ==
    [][ ( /\ op' = "performance_optimize_scene"
          /\ report'.ret = "FINISHED"
          /\ props'.remove_unused_groups ) =>
        LET least == IF props'.clean_weights THEN ZeroWeightLimit ELSE 0
            gone == Len(vertex_groups) - Len(vertex_groups')
            said == Changes(report', "Removed {} unused weight groups")
        IN  /\ \A i \in DOMAIN vertex_groups' :
                  Members(vertices', vertex_groups', vertex_groups'[i], 0) # {}
            /\ \A i \in DOMAIN vertex_groups :
                  Members(vertices, vertex_groups, vertex_groups[i], least) # {} =>
                     /\ vertex_groups[i] \in Range(vertex_groups')
                     /\ Members(vertices', vertex_groups', vertex_groups[i], 0)
                           = Members(vertices, vertex_groups, vertex_groups[i], least)
            /\ \A i, j \in DOMAIN vertex_groups' :
                  vertex_groups'[i] = vertex_groups'[j] => i = j
            /\ IF gone = 0 THEN said = {}
               ELSE /\ Cardinality(said) = 1
                    /\ \A i \in said : report'.args[i].n = gone
      ]_vars

\* C9's case: two adjacent unused groups were removed ahead of a used one
C9_Witness ==
    /\ Finished("performance_optimize_scene")
    /\ props.remove_unused_groups
    /\ \E i \in Changes(report, "Removed {} unused weight groups") : report.args[i].n = 2
    /\ vertex_groups = << GroupNames[3] >>
    /\ \E v \in DOMAIN vertices : Len(vertices[v]) > 0

\* the node tree is the two nodes bom_setup_material builds and their one link
IsBomTree(t) ==
    /\ Len(t.nodes) = 2
    /\ \E b, o \in DOMAIN t.nodes :
          /\ t.nodes[b].type = "ShaderNodeBsdfPrincipled"
          /\ t.nodes[b].Specular = 0
          /\ t.nodes[b].Roughness = 10
          /\ t.nodes[o].type = "ShaderNodeOutputMaterial"
          /\ t.links = { [ from_node |-> t.nodes[b].name, from_socket |-> "BSDF",
                           to_node |-> t.nodes[o].name, to_socket |-> "Surface" ] }

\* C10: bom_setup_material, run on a mesh with a UV layer, ends with a material
\* '<object name>_BoM' whose node tree is one Principled BSDF (Specular 0.0,
\* Roughness 1.0) linked to one material output, and with that material in
\* slot 0, whatever the material held before; and a run that follows a run
\* leaves the scene as it was.
C10_SetupMaterial ==
    [][ ( /\ op' = "bom_setup_material"
          /\ IsMesh
          /\ uv_layers >= 1 ) =>
        LET name == BomMaterialName(active)
        IN  /\ report'.ret = "FINISHED"
            /\ name \in DOMAIN materials'
            /\ materials'[name].node_tree # NoTree
            /\ IsBomTree(materials'[name].node_tree[1])
            /\ Len(slots') >= 1
            /\ slots'[1] = name
            /\ (op = "bom_setup_material" /\ report.ret = "FINISHED") => scene' = scene
      ]_vars

\* C11: a run of animesh_validate or performance_profile, whatever it returns,
\* leaves the scene (the mesh's vertices, weights, faces and vertex groups, the
\* armature's bones, the modifier stack, the materials and their slots) and
\* _bone_cache as they were; animesh_validate leaves _mesh_cache as it was;
\* performance_profile either leaves _mesh_cache as it was or adds the one
\* entry under the active mesh's name and keeps every other entry.
C11_ReadOnly ==
    [][ (op' \in { "animesh_validate", "performance_profile" }) =>
        /\ scene' = scene
        /\ bone_cache' = bone_cache
        /\ backups' = backups
        /\ registered' = registered
        /\ \/ mesh_cache' = mesh_cache
           \/ /\ op' = "performance_profile"
              /\ IsMesh
              /\ active \notin DOMAIN mesh_cache
              /\ DOMAIN mesh_cache' = DOMAIN mesh_cache \cup { active }
              /\ \A n \in DOMAIN mesh_cache : mesh_cache'[n] = mesh_cache[n]
      ]_vars

\* C11's case: performance_profile has run on a mesh with vertices, faces,
\* an armature of more than 110 bones, a modifier stack and a material, and
\* the entry it added to _mesh_cache is there
C11_Witness ==
    /\ Finished("performance_profile")
    /\ IsMesh
    /\ active \in DOMAIN mesh_cache
    /\ Len(vertices) > 0
    /\ TriangleCount(faces) > ANIMESH_MAX_TRIANGLES
    /\ DeformCount(bones) > ANIMESH_MAX_BONES
    /\ FindArmature(modifiers) # "None"
    /\ materials # NoMaterials
    /\ slots # << >>

====
